---- MODULE Spec2Model ----
(***************************************************************************)
(* A model of junction: an HTTP service that maps a slug to a configured   *)
(* command, runs the command and answers with its output.                  *)
(*                                                                         *)
(*   crates/junction/src/config.rs   Config, ResolvedConfig, OutputConfig  *)
(*   crates/junction/src/main.rs     startup: load, resolve, serve         *)
(*   crates/junction/src/server.rs   app, serve, get_config, get_output,   *)
(*                                   get_modified_path                     *)
(*                                                                         *)
(* Strings that the code only stores and compares (slug, cmd, an argument) *)
(* are TLA+ strings.  Strings that the code splits, joins or decodes (PATH,*)
(* data_dir, the executable's directory, a process's output) are sequences *)
(* of one-character strings, so that split(':'), join(":") and the lossy   *)
(* UTF-8 decoding are computed as the code computes them.                  *)
(***************************************************************************)
EXTENDS Integers, Sequences, FiniteSets

VARIABLES
    pc,        \* where main() is: start, args, loaded, resolved, listening, panicked
    panic,     \* the message of the expect() that ended main(), "" while it runs
    config,    \* what Config::from_yaml_file returned to main
    resolved,  \* main's `resolved_config`: the value ResolvedConfig::new returned
    iterOrder, \* the iteration order of resolved.outputs (a HashMap)
    shared,    \* the Arc<ResolvedConfig> that app() hands to every handler
    dataDir,   \* the --data-dir argument
    envPath,   \* the service process's own PATH variable
    exePath,   \* what std::env::current_exe() yields
    pathCall,  \* what a direct call of get_modified_path returned, None before it
    loop,      \* ResolvedConfig::new run step by step: its map and the definitions visited
    merger,    \* the run of junction-merger's main
    req,       \* the request tasks in flight, one per connection slot
    last       \* the request answered most recently, and what happened in it

vars == <<pc, panic, config, resolved, iterOrder, shared, dataDir, envPath,
          exePath, pathCall, loop, merger, req, last>>

(***************************************************************************)
(* Bounds of the model.                                                    *)
(***************************************************************************)
MaxOutputs == 3     \* longest `outputs` list of a config file
MaxRequests == 2    \* request tasks in flight at once
MaxPathLen == 3     \* longest PATH given to a direct call of get_modified_path
MaxNewLen == 4      \* longest list given to ResolvedConfig::new run step by step
MaxSources == 3     \* most sources given to junction-merger
Workers == 1        \* worker threads of the runtime

Req == 1..MaxRequests

(***************************************************************************)
(* Option<T> and Result<T, E>.                                             *)
(***************************************************************************)
None == << >>
Some(v) == <<v>>
IsSome(o) == Len(o) = 1
Unwrap(o) == o[1]

Ok(v) == [ok |-> TRUE, value |-> v]
Err(e) == [ok |-> FALSE, err |-> e]

(***************************************************************************)
(* The values the inputs are drawn from.                                   *)
(***************************************************************************)
ConfigSlugs == {"a", "b"}
RequestSlugs == ConfigSlugs \cup {"zz"}
Commands == { [cmd |-> "/bin/echo", args |-> <<"hello", "world">>],
              [cmd |-> "/bin/pwd", args |-> << >>] }

\* config.rs: struct OutputConfig { slug, cmd, args }
OutputConfig == { [slug |-> s, cmd |-> c.cmd, args |-> c.args] :
                  s \in ConfigSlugs, c \in Commands }

SeqsUpTo(S, n) == UNION { [1..k -> S] : k \in 0..n }

\* The `outputs` lists a YAML file can hold.
OutputLists == SeqsUpTo(OutputConfig, MaxOutputs)

\* All orders in which the elements of a finite set can be listed.
Orderings(S) ==
    { p \in [1..Cardinality(S) -> S] : \A i, j \in DOMAIN p : p[i] = p[j] => i = j }

SeqToSet(s) == { s[i] : i \in DOMAIN s }

(***************************************************************************)
(* config.rs                                                               *)
(***************************************************************************)

\* std HashMap<String, OutputConfig>: a function from the keys present.
HashMapNew == [k \in {} |-> 0]
contains_key(m, k) == k \in DOMAIN m
insert(m, k, v) == [x \in (DOMAIN m) \cup {k} |-> IF x = k THEN v ELSE m[x]]
get(m, k) == IF k \in DOMAIN m THEN Some(m[k]) ELSE None
len(m) == Cardinality(DOMAIN m)

\* Config::from_yaml_file: the file cannot be opened, cannot be parsed, or
\* yields a Config.
RawConfigResults ==
    { Err("IoError"), Err("ParseError") } \cup { Ok([outputs |-> l]) : l \in OutputLists }

DuplicatePublicKey(slug) == [kind |-> "DuplicatePublicKey", slug |-> slug]

\* Mutant of NewLoop: the duplicate test compares the command, not the slug.
RECURSIVE NewLoopTestsCmd(_, _, _)
NewLoopTestsCmd(outputs, rest, data_dir) ==
    IF rest = << >>
    THEN Ok([outputs |-> outputs, data_dir |-> data_dir])
    ELSE LET output == Head(rest) IN
         IF \E k \in DOMAIN outputs : outputs[k].cmd = output.cmd
         THEN Err(DuplicatePublicKey(output.slug))
         ELSE NewLoopTestsCmd(insert(outputs, output.slug, output), Tail(rest), data_dir)

\* Mutant of NewLoop: no duplicate test, a later definition replaces an
\* earlier one.
RECURSIVE NewLoopOverwrites(_, _, _)
NewLoopOverwrites(outputs, rest, data_dir) ==
    IF rest = << >>
    THEN Ok([outputs |-> outputs, data_dir |-> data_dir])
    ELSE NewLoopOverwrites(insert(outputs, Head(rest).slug, Head(rest)), Tail(rest),
                           data_dir)

\* The `for output in config.outputs` loop of ResolvedConfig::new, from the
\* map built so far and the definitions not yet visited.
RECURSIVE NewLoop(_, _, _)
NewLoop(outputs, rest, data_dir) ==
    IF rest = << >>
    THEN Ok([outputs |-> outputs, data_dir |-> data_dir])
    ELSE LET output == Head(rest) IN
         IF contains_key(outputs, output.slug)
         THEN Err(DuplicatePublicKey(output.slug))
         ELSE NewLoop(insert(outputs, output.slug, output), Tail(rest), data_dir)

\* ResolvedConfig::new(config, data_dir)
ResolvedConfigNew(cfg, data_dir) == NewLoop(HashMapNew, cfg.outputs, data_dir)

\* ResolvedConfig::get_output_by_slug(&self, slug)
get_output_by_slug(self, slug) == get(self.outputs, slug)

\* Mutant of get_command_parts: the arguments in reverse order.
get_command_parts_reversed(self) ==
    <<self.cmd, [i \in 1..Len(self.args) |-> self.args[Len(self.args) + 1 - i]]>>

\* OutputConfig::get_command_parts(&self)
get_command_parts(self) == <<self.cmd, self.args>>

(***************************************************************************)
(* Strings and bytes, as server.rs uses them.                              *)
(***************************************************************************)
Colon == ":"
InvalidByte == "\\xFF"        \* a byte that is valid in no UTF-8 sequence
ReplacementChar == "U+FFFD"

\* String::from_utf8_lossy / OsStr::to_string_lossy: every invalid byte is
\* replaced, every other byte is kept.
FromUtf8Lossy(bytes) ==
    [i \in DOMAIN bytes |-> IF bytes[i] = InvalidByte THEN ReplacementChar ELSE bytes[i]]

\* String::from_utf8: refuses a byte string that is not UTF-8.
FromUtf8(bytes) ==
    IF \E i \in DOMAIN bytes : bytes[i] = InvalidByte THEN Err("FromUtf8Error") ELSE Ok(bytes)

\* str::split(':'): the segments between the colons; "" has the one segment "".
RECURSIVE Split(_)
Split(s) ==
    IF \A i \in DOMAIN s : s[i] # Colon
    THEN <<s>>
    ELSE LET i == CHOOSE j \in DOMAIN s :
                      s[j] = Colon /\ \A k \in 1..(j - 1) : s[k] # Colon
         IN <<SubSeq(s, 1, i - 1)>> \o Split(SubSeq(s, i + 1, Len(s)))

\* [String]::join(":")
RECURSIVE Join(_)
Join(parts) ==
    IF parts = << >> THEN << >>
    ELSE IF Len(parts) = 1 THEN parts[1]
    ELSE parts[1] \o <<Colon>> \o Join(Tail(parts))

\* Vec::dedup: removes consecutive repeated elements.
RECURSIVE Dedup(_)
Dedup(v) ==
    IF Len(v) <= 1 THEN v
    ELSE IF v[1] = v[2] THEN Dedup(Tail(v))
    ELSE <<v[1]>> \o Dedup(Tail(v))

\* Path::parent of an absolute path: None for the root, otherwise the path
\* without its last component.
Parent(p) ==
    IF p = << >> \/ p = <<"/">> THEN None
    ELSE IF \A i \in DOMAIN p : p[i] # "/" THEN Some(<< >>)
    ELSE LET i == CHOOSE j \in DOMAIN p :
                      p[j] = "/" /\ \A k \in (j + 1)..Len(p) : p[k] # "/"
         IN IF i = 1 THEN Some(<<"/">>) ELSE Some(SubSeq(p, 1, i - 1))

\* A tracing event.
Event(level, msg) == [level |-> level, msg |-> msg]

\* Mutant of in_path: dir occurs anywhere in PATH, not as a whole segment.
in_path_substring(current_path, dir) ==
    \E i \in 0..(Len(current_path) - Len(dir)) :
        SubSeq(current_path, i + 1, i + Len(dir)) = dir

\* `current_path.split(':').any(|p| p == dir)`: dir is a segment of PATH.
in_path(current_path, dir) ==
    \E i \in DOMAIN Split(current_path) : Split(current_path)[i] = dir

\* Mutant of path_parts: the original PATH is not pushed at the end.
path_parts_without_path(data_dir, current_path, current_exe) ==
    LET exe_dir == IF current_exe.ok THEN Parent(current_exe.value) ELSE None
        exe_dir_str == FromUtf8Lossy(Unwrap(exe_dir))
        parts1 == IF current_exe.ok /\ IsSome(exe_dir) /\ ~in_path(current_path, exe_dir_str)
                  THEN <<exe_dir_str>> ELSE << >>
        data_dir_str == FromUtf8Lossy(data_dir)
        parts2 == IF ~in_path(current_path, data_dir_str)
                  THEN parts1 \o <<data_dir_str>> ELSE parts1
    IN [parts |-> Dedup(parts2), log |-> << >>]

\* get_modified_path past the read of PATH: the vector `path_parts` when it
\* is joined, and the events logged on the way.
path_parts(data_dir, current_path, current_exe) ==
    LET exe_dir == IF current_exe.ok THEN Parent(current_exe.value) ELSE None
        exe_dir_str == FromUtf8Lossy(Unwrap(exe_dir))
        parts1 == IF current_exe.ok /\ IsSome(exe_dir) /\ ~in_path(current_path, exe_dir_str)
                  THEN <<exe_dir_str>> ELSE << >>
        log1 == IF ~current_exe.ok
                THEN <<Event("WARN", <<"Failed to get current executable path: ">>
                                      \o current_exe.err)>>
                ELSE IF ~IsSome(exe_dir)
                THEN <<Event("WARN", <<"Failed to get parent directory of executable">>)>>
                ELSE << >>
        data_dir_str == FromUtf8Lossy(data_dir)
        parts2 == IF ~in_path(current_path, data_dir_str)
                  THEN parts1 \o <<data_dir_str>> ELSE parts1
    IN [parts |-> Dedup(parts2) \o <<current_path>>, log |-> log1]

\* Mutant of get_modified_path: an unreadable PATH is taken to be empty.
get_modified_path_default(data_dir, env_path, current_exe) ==
    LET p == path_parts(data_dir, IF env_path.ok THEN env_path.value ELSE << >>,
                        current_exe)
    IN [ret |-> Some(Join(p.parts)), log |-> p.log]

\* get_modified_path(data_dir), with the PATH variable and current_exe() it
\* reads: the value returned and the events logged.
get_modified_path(data_dir, env_path, current_exe) ==
    IF ~env_path.ok
    THEN [ret |-> None,
          log |-> <<Event("WARN", <<"Failed to read PATH environment variable">>)>>]
    ELSE LET p == path_parts(data_dir, env_path.value, current_exe)
         IN [ret |-> Some(Join(p.parts)), log |-> p.log]

(***************************************************************************)
(* server.rs: the handlers.                                                *)
(***************************************************************************)

\* A response: status, the Content-Type the handler sets ("" when the handler
\* sets none), a text body, and for Json(..) the document serialised.
Response(status, content_type, body, json) ==
    [status |-> status, content_type |-> content_type, body |-> body, json |-> json]

\* poem::Error::from_status(status): the status alone, no body.
ErrorFromStatus(status) == Response(status, "", << >>, None)

\* poem::Error::from_string(msg, status): the status with msg as body.
ErrorFromString(msg, status) == Response(status, "", msg, None)

\* Mutant of ToJson: the members of `outputs` are keyed by the command.
ToJsonKeyedByCmd(cfg, order) ==
    [outputs |-> [i \in DOMAIN order |->
                    <<cfg.outputs[order[i]].cmd, cfg.outputs[order[i]]>>],
     data_dir |-> cfg.data_dir]

\* serde's serialisation of a ResolvedConfig: `outputs` as an object whose
\* members follow the map's iteration order, then `data_dir`.
ToJson(cfg, order) ==
    [outputs |-> [i \in DOMAIN order |-> <<order[i], cfg.outputs[order[i]]>>],
     data_dir |-> cfg.data_dir]

\* get_config: Json(config.as_ref().clone())
get_config(cfg, order) ==
    Response(200, "application/json; charset=utf-8", << >>, Some(ToJson(cfg, order)))

\* What a spawn that the operating system refuses reports.
SpawnErrors == { <<"No such file or directory (os error 2)">>,
                 <<"Permission denied (os error 13)">> }

\* What a process that ran leaves behind: std::process::Output.
ExitStatuses == { "exit status: 0", "exit status: 1", "signal: 9 (SIGKILL)" }
success(status) == status = "exit status: 0"
Stdouts == { << >>, <<"o", InvalidByte>> }
Stderrs == { << >>, <<"e", InvalidByte>> }
Outputs == [status : ExitStatuses, stdout : Stdouts, stderr : Stderrs]

\* Mutant of get_output_command: the PATH is computed before the slug is
\* looked up.
get_output_command_path_first(cfg, slug, env_path, current_exe) ==
    LET output_config == get_output_by_slug(cfg, slug)
        modified == get_modified_path(cfg.data_dir, env_path, current_exe)
    IN
    IF ~IsSome(output_config)
    THEN [ok |-> FALSE, err |-> ErrorFromStatus(404), path_calls |-> 1]
    ELSE LET parts == get_command_parts(Unwrap(output_config))
         IN [ok |-> TRUE,
             command |-> [program |-> parts[1],
                          args |-> parts[2],
                          current_dir |-> cfg.data_dir,
                          env_path |-> modified.ret],
             path_calls |-> 1,
             log |-> modified.log]

\* get_output up to `command.output()`: the lookup, and for a known slug the
\* Command built (program, args, current_dir, PATH override) and the events
\* logged on the way.
get_output_command(cfg, slug, env_path, current_exe) ==
    LET output_config == get_output_by_slug(cfg, slug) IN
    IF ~IsSome(output_config)
    THEN [ok |-> FALSE, err |-> ErrorFromStatus(404), path_calls |-> 0]
    ELSE LET parts == get_command_parts(Unwrap(output_config))
             modified == get_modified_path(cfg.data_dir, env_path, current_exe)
         IN [ok |-> TRUE,
             command |-> [program |-> parts[1],
                          args |-> parts[2],
                          current_dir |-> cfg.data_dir,
                          env_path |-> modified.ret],
             path_calls |-> 1,
             log |-> modified.log \o
                     (IF IsSome(modified.ret)
                      THEN <<Event("DEBUG", <<"Modify PATH environment variable to: ">>
                                            \o Unwrap(modified.ret))>>
                      ELSE << >>)]

\* Mutant of get_output_spawn_error: a fixed message, without the error.
get_output_spawn_error_opaque(e) ==
    ErrorFromString(<<"Failed to execute command">>, 500)

\* get_output when command.output() fails: the map_err closure.
get_output_spawn_error(e) ==
    ErrorFromString(<<"Failed to execute command: ">> \o e, 500)

\* Mutant of get_output_log: stderr is logged as an error whatever the exit
\* status.
get_output_log_always_error(output) ==
    IF output.stderr # << >>
    THEN <<Event("ERROR", <<"Command failed with status: ", output.status,
                            ". Stderr:\n">> \o FromUtf8Lossy(output.stderr))>>
    ELSE << >>

\* The events get_output logs for a finished process.
get_output_log(output) ==
    IF output.stderr # << >>
    THEN IF success(output.status)
         THEN <<Event("INFO", <<"Command stderr output:\n">>
                              \o FromUtf8Lossy(output.stderr))>>
         ELSE <<Event("ERROR", <<"Command failed with status: ", output.status,
                                 ". Stderr:\n">> \o FromUtf8Lossy(output.stderr))>>
    ELSE << >>

\* Mutant of get_output_response: a failed command is answered with what it
\* wrote to stdout.
get_output_response_stdout(output) ==
    IF ~success(output.status)
    THEN ErrorFromString(FromUtf8Lossy(output.stdout), 500)
    ELSE Response(200, "text/plain; charset=utf-8", FromUtf8Lossy(output.stdout), None)

\* Mutant of get_output_response: anything on stderr counts as a failure.
get_output_response_strict(output) ==
    IF ~success(output.status) \/ output.stderr # << >>
    THEN ErrorFromString(FromUtf8Lossy(output.stderr), 500)
    ELSE Response(200, "text/plain; charset=utf-8", FromUtf8Lossy(output.stdout), None)

\* The response get_output gives for a finished process.
get_output_response(output) ==
    IF ~success(output.status)
    THEN ErrorFromString(FromUtf8Lossy(output.stderr), 500)
    ELSE LET utf8 == FromUtf8(output.stdout)
             content == IF utf8.ok THEN utf8.value ELSE FromUtf8Lossy(output.stdout)
         IN Response(200, "text/plain; charset=utf-8", content, None)

(***************************************************************************)
(* The environment the service starts in.                                  *)
(***************************************************************************)
DataDirs == { <<"d">>, <<"/", "x">> }
EnvPaths == { Err("NotPresent"), Ok(<<"d", ":", "b">>) }
ExePaths == { Ok(<<"/", "x", "/", "j">>) }

\* A request task that has not been dispatched.
IdleRequest ==
    [st |-> "idle", slug |-> "", command |-> None, path_calls |-> 0, spawns |-> 0,
     log |-> << >>]

\* No request answered yet.
NoRequest ==
    [route |-> "", slug |-> "", command |-> None, path_calls |-> 0,
     spawns |-> 0, spawn_err |-> None, output |-> None,
     resp |-> Response(0, "", << >>, None), log |-> << >>, concurrent |-> FALSE]

\* Some request other than r is suspended in `command.output().await`.
\* ResolvedConfig::new at its entry: `outputs` is HashMap::new() and no
\* definition has been visited.
NoLoop == [outputs |-> HashMapNew, visited |-> 0]

\* junction-merger has not been started.
NoMerger == [pc |-> "off"]

Concurrent(r) == \E q \in Req \ {r} : req[q].st = "waiting"

Init ==
    /\ pc = "start"
    /\ panic = ""
    /\ config = None
    /\ resolved = None
    /\ iterOrder = << >>
    /\ shared = None
    /\ dataDir \in DataDirs
    /\ envPath \in EnvPaths
    /\ exePath \in ExePaths
    /\ pathCall = None
    /\ loop = NoLoop
    /\ merger = NoMerger
    /\ req = [r \in Req |-> IdleRequest]
    /\ last = NoRequest

Panic(msg) ==
    /\ pc' = "panicked"
    /\ panic' = msg

(***************************************************************************)
(* main.rs: startup.                                                       *)
(***************************************************************************)

\* main, to the creation of the data directory: the listen address is
\* parsed and the data directory is created when it is missing.
MainParseArgs ==
    /\ pc = "start"
    /\ \E addr_ok \in BOOLEAN, dir \in {"exists", "created", "cannot create"} :
          IF ~addr_ok THEN Panic("Invalid API address")
          ELSE IF dir = "cannot create" THEN Panic("Failed to create data directory")
          ELSE pc' = "args" /\ panic' = panic
    /\ UNCHANGED <<config, resolved, iterOrder, shared, dataDir, envPath, exePath,
                   pathCall, loop, merger,
                   req, last>>

\* Config::from_yaml_file(config_file_path).expect("Failed to load config")
MainLoadConfig ==
    /\ pc = "args"
    /\ \E r \in RawConfigResults :
          /\ config' = Some(r)
          /\ IF r.ok
             THEN pc' = "loaded" /\ panic' = panic
             ELSE Panic("Failed to load config")
    /\ UNCHANGED <<resolved, iterOrder, shared, dataDir, envPath, exePath,
                   pathCall, loop, merger, req, last>>

\* Mutant of MainResolveConfig: a configuration that does not resolve is
\* reported and startup goes on.
MainResolveConfigLenient ==
    /\ pc = "loaded"
    /\ LET r == ResolvedConfigNew(Unwrap(config).value, dataDir) IN
          /\ resolved' = Some(r)
          /\ iterOrder' \in (IF r.ok THEN Orderings(DOMAIN r.value.outputs) ELSE {<< >>})
          /\ pc' = "resolved"
          /\ panic' = panic
    /\ UNCHANGED <<config, shared, dataDir, envPath, exePath,
                   pathCall, loop, merger, req, last>>

\* ResolvedConfig::new(config, data_dir).expect("Failed to resolve config")
MainResolveConfig ==
    /\ pc = "loaded"
    /\ LET r == ResolvedConfigNew(Unwrap(config).value, dataDir) IN
          /\ resolved' = Some(r)
          /\ IF r.ok
             THEN /\ iterOrder' \in Orderings(DOMAIN r.value.outputs)
                  /\ pc' = "resolved"
                  /\ panic' = panic
             ELSE /\ iterOrder' = iterOrder
                  /\ Panic("Failed to resolve config")
    /\ UNCHANGED <<config, shared, dataDir, envPath, exePath,
                   pathCall, loop, merger, req, last>>

\* serve(api_addr, resolved_config).await.expect("Failed to start the server"):
\* app() wraps the configuration in an Arc, then the listener is bound.
Serve ==
    /\ pc = "resolved"
    /\ shared' = Some(Unwrap(resolved).value)
    /\ \E bound \in BOOLEAN :
          IF bound THEN pc' = "listening" /\ panic' = panic
          ELSE Panic("Failed to start the server")
    /\ UNCHANGED <<config, resolved, iterOrder, dataDir, envPath, exePath,
                   pathCall, loop, merger, req, last>>

(***************************************************************************)
(* server.rs: requests.  The runtime runs a handler on a worker thread     *)
(* until the handler awaits.                                               *)
(***************************************************************************)

\* Mutant of HoldsWorker: the handler waits for the process with a blocking
\* call and keeps its worker thread meanwhile.
HoldsWorkerBlocking(st) == st = "waiting"

\* Whether a request task in state st keeps its worker thread:
\* tokio::process::Command::output().await suspends the task and gives the
\* worker back.
HoldsWorker(st) == FALSE

\* A worker thread is free to run a newly dispatched handler.
CanDispatch == Cardinality({ q \in Req : HoldsWorker(req[q].st) }) < Workers

\* The router can hand a request arriving on connection r to its handler:
\* the server is running, the connection has no request in progress and a
\* worker is free.
Dispatchable(r) ==
    /\ pc = "listening"
    /\ req[r].st = "idle"
    /\ CanDispatch

\* Mutant of GetConfig: the handler moves the configuration out of the
\* shared state instead of cloning it.
GetConfigTakes(r) ==
    /\ Dispatchable(r)
    /\ last' = [NoRequest EXCEPT !.route = "/config",
                                 !.resp = get_config(Unwrap(shared), iterOrder),
                                 !.concurrent = Concurrent(r)]
    /\ shared' = Some([outputs |-> HashMapNew, data_dir |-> << >>])
    /\ iterOrder' = << >>
    /\ UNCHANGED <<pc, panic, config, resolved, dataDir, envPath, exePath,
                   pathCall, loop, merger, req>>

\* GET /config on connection r.
GetConfig(r) ==
    /\ Dispatchable(r)
    /\ last' = [NoRequest EXCEPT !.route = "/config",
                                 !.resp = get_config(Unwrap(shared), iterOrder),
                                 !.concurrent = Concurrent(r)]
    /\ UNCHANGED <<pc, panic, config, resolved, iterOrder, shared, dataDir, envPath,
                   exePath, pathCall, loop, merger, req>>

\* Mutant of GetOutputBegin: the augmented PATH is set on the service's own
\* environment with std::env::set_var and the process inherits it.
GetOutputBeginSetVar(r, slug) ==
    /\ Dispatchable(r)
    /\ LET c == get_output_command(Unwrap(shared), slug, envPath, exePath)
           this == [NoRequest EXCEPT !.route = "/output/:slug",
                                     !.slug = slug, !.concurrent = Concurrent(r)]
       IN IF ~c.ok
          THEN /\ last' = [this EXCEPT !.resp = c.err, !.path_calls = c.path_calls]
               /\ req' = req
               /\ envPath' = envPath
          ELSE /\ envPath' = (IF IsSome(c.command.env_path)
                              THEN Ok(Unwrap(c.command.env_path)) ELSE envPath)
               /\ \E started \in BOOLEAN :
                     IF started
                     THEN /\ req' = [req EXCEPT ![r] = [st |-> "waiting", slug |-> slug,
                                                        command |-> Some(c.command),
                                                        path_calls |-> c.path_calls,
                                                        spawns |-> 1,
                                                        log |-> c.log]]
                          /\ last' = last
                     ELSE \E e \in SpawnErrors :
                             /\ last' = [this EXCEPT !.command = Some(c.command),
                                                     !.path_calls = c.path_calls,
                                                     !.spawns = 1,
                                                     !.spawn_err = Some(e),
                                                     !.log = c.log,
                                                     !.resp = get_output_spawn_error(e)]
                             /\ req' = req
    /\ UNCHANGED <<pc, panic, config, resolved, iterOrder, shared, dataDir, exePath,
                   pathCall, loop, merger>>

\* GET /output/{slug} on connection r, to the first poll of
\* command.output(): an unknown slug is answered 404, a process that cannot
\* be started is answered 500, a started process leaves the task waiting.
GetOutputBegin(r, slug) ==
    /\ Dispatchable(r)
    /\ LET c == get_output_command(Unwrap(shared), slug, envPath, exePath)
           this == [NoRequest EXCEPT !.route = "/output/:slug",
                                     !.slug = slug, !.concurrent = Concurrent(r)]
       IN IF ~c.ok
          THEN /\ last' = [this EXCEPT !.resp = c.err, !.path_calls = c.path_calls]
               /\ req' = req
          ELSE \E started \in BOOLEAN :
                  IF started
                  THEN /\ req' = [req EXCEPT ![r] = [st |-> "waiting", slug |-> slug,
                                                     command |-> Some(c.command),
                                                     path_calls |-> c.path_calls,
                                                     spawns |-> 1,
                                                     log |-> c.log]]
                       /\ last' = last
                  ELSE \E e \in SpawnErrors :
                          /\ last' = [this EXCEPT !.command = Some(c.command),
                                                  !.path_calls = c.path_calls,
                                                  !.spawns = 1,
                                                  !.spawn_err = Some(e),
                                                  !.log = c.log,
                                                  !.resp = get_output_spawn_error(e)]
                          /\ req' = req
    /\ UNCHANGED <<pc, panic, config, resolved, iterOrder, shared, dataDir, envPath,
                   exePath, pathCall, loop, merger>>

\* Mutant of GetOutputEnd: standard output that is not UTF-8 is unwrapped
\* and the panic takes the service down.
GetOutputEndUnwrap(r) ==
    /\ req[r].st = "waiting"
    /\ \E output \in Outputs :
          IF success(output.status) /\ ~FromUtf8(output.stdout).ok
          THEN /\ Panic("called Result::unwrap() on an Err value")
               /\ UNCHANGED <<req, last>>
          ELSE /\ last' = [NoRequest EXCEPT !.route = "/output/:slug",
                                            !.slug = req[r].slug,
                                            !.command = req[r].command,
                                            !.path_calls = req[r].path_calls,
                                            !.spawns = req[r].spawns,
                                            !.output = Some(output),
                                            !.log = req[r].log \o get_output_log(output),
                                            !.resp = get_output_response(output),
                                            !.concurrent = Concurrent(r)]
               /\ req' = [req EXCEPT ![r] = IdleRequest]
               /\ UNCHANGED <<pc, panic>>
    /\ UNCHANGED <<config, resolved, iterOrder, shared, dataDir, envPath, exePath,
                   pathCall, loop, merger>>

\* Mutant of GetOutputEnd: a command that failed is run a second time.
GetOutputEndRetry(r) ==
    /\ req[r].st = "waiting"
    /\ \E output \in Outputs :
          IF ~success(output.status) /\ req[r].spawns < 2
          THEN /\ req' = [req EXCEPT ![r].spawns = 2]
               /\ last' = last
          ELSE /\ last' = [NoRequest EXCEPT !.route = "/output/:slug",
                                            !.slug = req[r].slug,
                                            !.command = req[r].command,
                                            !.path_calls = req[r].path_calls,
                                            !.spawns = req[r].spawns,
                                            !.output = Some(output),
                                            !.log = req[r].log \o get_output_log(output),
                                            !.resp = get_output_response(output),
                                            !.concurrent = Concurrent(r)]
               /\ req' = [req EXCEPT ![r] = IdleRequest]
    /\ UNCHANGED <<pc, panic, config, resolved, iterOrder, shared, dataDir, envPath,
                   exePath, pathCall, loop, merger>>

\* Mutant of GetOutputEnd: a request is answered 500 while its process is
\* still running.
GetOutputEndTimeout(r) ==
    /\ req[r].st = "waiting"
    /\ \/ \E output \in Outputs :
             last' = [NoRequest EXCEPT !.route = "/output/:slug",
                                       !.slug = req[r].slug,
                                       !.command = req[r].command,
                                       !.path_calls = req[r].path_calls,
                                       !.spawns = req[r].spawns,
                                       !.output = Some(output),
                                       !.log = req[r].log \o get_output_log(output),
                                       !.resp = get_output_response(output),
                                       !.concurrent = Concurrent(r)]
       \/ last' = [NoRequest EXCEPT !.route = "/output/:slug",
                                    !.slug = req[r].slug,
                                    !.command = req[r].command,
                                    !.path_calls = req[r].path_calls,
                                    !.spawns = req[r].spawns,
                                    !.log = req[r].log,
                                    !.resp = ErrorFromStatus(500),
                                    !.concurrent = Concurrent(r)]
    /\ req' = [req EXCEPT ![r] = IdleRequest]
    /\ UNCHANGED <<pc, panic, config, resolved, iterOrder, shared, dataDir, envPath,
                   exePath, pathCall, loop, merger>>

\* The process of request r exits and get_output runs to its end.
GetOutputEnd(r) ==
    /\ req[r].st = "waiting"
    /\ \E output \in Outputs :
          last' = [NoRequest EXCEPT !.route = "/output/:slug",
                                    !.slug = req[r].slug,
                                    !.command = req[r].command,
                                    !.path_calls = req[r].path_calls,
                                    !.spawns = req[r].spawns,
                                    !.output = Some(output),
                                    !.log = req[r].log \o get_output_log(output),
                                    !.resp = get_output_response(output),
                                    !.concurrent = Concurrent(r)]
    /\ req' = [req EXCEPT ![r] = IdleRequest]
    /\ UNCHANGED <<pc, panic, config, resolved, iterOrder, shared, dataDir, envPath,
                   exePath, pathCall, loop, merger>>

Next ==
    \/ MainParseArgs
    \/ MainLoadConfig
    \/ MainResolveConfig
    \/ Serve
    \/ \E r \in Req : GetConfig(r)
    \/ \E r \in Req, slug \in RequestSlugs : GetOutputBegin(r, slug)
    \/ \E r \in Req : GetOutputEnd(r)

Spec == Init /\ [][Next]_vars

(***************************************************************************)
(* get_modified_path called on its own, as the unit tests of server.rs     *)
(* call it, over more environments than the service is started in above.   *)
(***************************************************************************)
PathChars == { "d", "x", Colon }
PathEnvPaths ==
    { Err("NotPresent") } \cup { Ok(p) : p \in SeqsUpTo(PathChars, MaxPathLen) }
PathDataDirs == { <<"d">>, <<"x">>, << >>, <<"d", Colon, "x">> }
PathExePaths == { Err(<<"No such file or directory (os error 2)">>),
                  Ok(<<"/">>),
                  Ok(<<"/", "j">>),
                  Ok(<<"d", "/", "j">>),
                  Ok(<<"x", "/", "j">>),
                  Ok(<<"x", Colon, "d", "/", "j">>) }

InitPath ==
    /\ pc = "get_modified_path"
    /\ panic = ""
    /\ config = None
    /\ resolved = None
    /\ iterOrder = << >>
    /\ shared = None
    /\ dataDir \in PathDataDirs
    /\ envPath \in PathEnvPaths
    /\ exePath \in PathExePaths
    /\ pathCall = None
    /\ loop = NoLoop
    /\ merger = NoMerger
    /\ req = [r \in Req |-> IdleRequest]
    /\ last = NoRequest

\* get_modified_path(data_dir)
CallGetModifiedPath ==
    /\ pc = "get_modified_path"
    /\ pathCall = None
    /\ pathCall' = Some(get_modified_path(dataDir, envPath, exePath))
    /\ UNCHANGED <<pc, panic, config, resolved, iterOrder, shared, dataDir, envPath,
                   exePath, loop, merger, req, last>>

NextPath == CallGetModifiedPath

SpecPath == InitPath /\ [][NextPath]_vars

(***************************************************************************)
(* ResolvedConfig::new run one iteration of its loop at a time, over       *)
(* longer lists with more slugs than main is started with above.           *)
(***************************************************************************)
NewSlugs == { "a", "b", "c" }
NewOutputConfig == { [slug |-> s, cmd |-> c.cmd, args |-> c.args] :
                     s \in NewSlugs, c \in Commands }
NewLists == SeqsUpTo(NewOutputConfig, MaxNewLen)

InitNew ==
    /\ pc = "ResolvedConfig::new"
    /\ panic = ""
    /\ config \in { Some(Ok([outputs |-> l])) : l \in NewLists }
    /\ resolved = None
    /\ iterOrder = << >>
    /\ shared = None
    /\ dataDir = <<"d">>
    /\ envPath = Err("NotPresent")
    /\ exePath = Ok(<<"/", "x", "/", "j">>)
    /\ pathCall = None
    /\ loop = NoLoop
    /\ merger = NoMerger
    /\ req = [r \in Req |-> IdleRequest]
    /\ last = NoRequest

\* Mutant of NewStep: a repeated slug is noted and the loop goes on to the
\* end of the list.
NewStepKeepsGoing ==
    /\ pc = "ResolvedConfig::new"
    /\ LET outputs == Unwrap(config).value.outputs
           rest == SubSeq(outputs, loop.visited + 1, Len(outputs))
       IN IF rest = << >>
          THEN /\ resolved' = (IF resolved = None
                               THEN Some(Ok([outputs |-> loop.outputs,
                                             data_dir |-> dataDir]))
                               ELSE resolved)
               /\ pc' = "returned"
               /\ loop' = loop
          ELSE LET output == Head(rest) IN
               IF contains_key(loop.outputs, output.slug)
               THEN /\ resolved' = Some(Err(DuplicatePublicKey(output.slug)))
                    /\ pc' = pc
                    /\ loop' = [loop EXCEPT !.visited = @ + 1]
               ELSE /\ loop' = [outputs |-> insert(loop.outputs, output.slug, output),
                                visited |-> loop.visited + 1]
                    /\ pc' = pc
                    /\ resolved' = resolved
    /\ UNCHANGED <<panic, config, iterOrder, shared, dataDir, envPath, exePath,
                   pathCall, merger, req, last>>

\* One pass through `for output in config.outputs`, or the return after the
\* last one.
NewStep ==
    /\ pc = "ResolvedConfig::new"
    /\ LET outputs == Unwrap(config).value.outputs
           rest == SubSeq(outputs, loop.visited + 1, Len(outputs))
       IN IF rest = << >>
          THEN /\ resolved' = Some(Ok([outputs |-> loop.outputs, data_dir |-> dataDir]))
               /\ pc' = "returned"
               /\ loop' = loop
          ELSE LET output == Head(rest) IN
               IF contains_key(loop.outputs, output.slug)
               THEN /\ resolved' = Some(Err(DuplicatePublicKey(output.slug)))
                    /\ pc' = "returned"
                    /\ loop' = [loop EXCEPT !.visited = @ + 1]
               ELSE /\ loop' = [outputs |-> insert(loop.outputs, output.slug, output),
                                visited |-> loop.visited + 1]
                    /\ pc' = pc
                    /\ resolved' = resolved
    /\ UNCHANGED <<panic, config, iterOrder, shared, dataDir, envPath, exePath,
                   pathCall, merger, req, last>>

NextNew == NewStep

SpecNew == InitNew /\ [][NextNew]_vars

(***************************************************************************)
(* junction-merger/src/main.rs: the merge functions.  A source's content   *)
(* is a string, a sequence of one-character strings.                       *)
(***************************************************************************)
Newline == "\n"
Quote == "\""

\* The contents a source can hold.
TextK1 == <<"{", Quote, "k", Quote, ":", "1", "}">>
TextK2M1 == <<"{", Quote, "k", Quote, ":", "2", ",", Quote, "m", Quote, ":", "1", "}">>
TextArray == <<"[", "1", "]">>
TextIni == <<" ", "k", "=", " ", "1", Newline, "#", "c", Newline, "m">>
Contents == { TextK1, TextK2M1, TextArray, TextIni }

\* serde_json::Value::Object with its members, and a value that is none.
Object(members) == [kind |-> "object", members |-> members]
Array == [kind |-> "array"]

\* serde_json::from_str::<Value>, on the contents above.
FromStr(content) ==
    IF content = TextK1 THEN Ok(Object([key \in {"k"} |-> 1]))
    ELSE IF content = TextK2M1
    THEN Ok(Object([key \in {"k", "m"} |-> IF key = "k" THEN 2 ELSE 1]))
    ELSE IF content = TextArray THEN Ok(Array)
    ELSE Err("expected value at line 1 column 2")

\* serde_json::to_string_pretty of an object: a JSON text with one member
\* for each key.
ToStringPretty(merged_object) ==
    [json |-> { <<key, merged_object[key]>> : key \in DOMAIN merged_object }]

\* `for (key, val) in obj { merged_object.insert(key, val); }`
InsertAll(merged_object, obj) ==
    [key \in (DOMAIN merged_object) \cup (DOMAIN obj) |->
        IF key \in DOMAIN obj THEN obj[key] ELSE merged_object[key]]

\* Mutant of MergeJsonLoop: a key that is already merged keeps its value.
RECURSIVE MergeJsonLoopFirstWins(_, _)
MergeJsonLoopFirstWins(merged_object, rest) ==
    IF rest = << >>
    THEN Ok(ToStringPretty(merged_object))
    ELSE LET value == FromStr(Head(rest)) IN
         IF ~value.ok THEN Err(value.err)
         ELSE IF value.value.kind = "object"
         THEN MergeJsonLoopFirstWins(InsertAll(value.value.members, merged_object),
                                     Tail(rest))
         ELSE Err("All JSON sources must be objects")

\* The `for content in contents` loop of merge_json_contents and its return.
RECURSIVE MergeJsonLoop(_, _)
MergeJsonLoop(merged_object, rest) ==
    IF rest = << >>
    THEN Ok(ToStringPretty(merged_object))
    ELSE LET value == FromStr(Head(rest)) IN
         IF ~value.ok THEN Err(value.err)
         ELSE IF value.value.kind = "object"
         THEN MergeJsonLoop(InsertAll(merged_object, value.value.members), Tail(rest))
         ELSE Err("All JSON sources must be objects")

\* merge_json_contents(contents)
merge_json_contents(contents) == MergeJsonLoop(HashMapNew, contents)

\* contents.join("\n")
RECURSIVE merge_plaintext_contents(_)
merge_plaintext_contents(contents) ==
    IF contents = << >> THEN << >>
    ELSE IF Len(contents) = 1 THEN contents[1]
    ELSE contents[1] \o <<Newline>> \o merge_plaintext_contents(Tail(contents))

\* str::lines: the lines between the line feeds, without a last empty one.
RECURSIVE SplitLines(_)
SplitLines(s) ==
    IF \A i \in DOMAIN s : s[i] # Newline
    THEN <<s>>
    ELSE LET i == CHOOSE j \in DOMAIN s :
                      s[j] = Newline /\ \A k \in 1..(j - 1) : s[k] # Newline
         IN <<SubSeq(s, 1, i - 1)>> \o SplitLines(SubSeq(s, i + 1, Len(s)))

Lines(s) ==
    LET parts == SplitLines(s)
    IN IF parts[Len(parts)] = << >> THEN SubSeq(parts, 1, Len(parts) - 1) ELSE parts

\* str::trim
IsWhitespace(c) == c \in {" ", "\t", "\r"}
RECURSIVE Trim(_)
Trim(s) ==
    IF s = << >> THEN s
    ELSE IF IsWhitespace(s[1]) THEN Trim(Tail(s))
    ELSE IF IsWhitespace(s[Len(s)]) THEN Trim(SubSeq(s, 1, Len(s) - 1))
    ELSE s

\* IndexMap: the entries in the order their keys were first inserted.
IndexOf(map, key) ==
    IF \E i \in DOMAIN map : map[i].key = key
    THEN CHOOSE i \in DOMAIN map : map[i].key = key
    ELSE 0
IndexInsert(map, key, value) ==
    IF IndexOf(map, key) = 0
    THEN Append(map, [key |-> key, value |-> value])
    ELSE [map EXCEPT ![IndexOf(map, key)].value = value]
\* entry(key).or_default() of a map of maps
EntryOrDefault(map, key) ==
    IF IndexOf(map, key) = 0 THEN Append(map, [key |-> key, value |-> << >>]) ELSE map

\* section_map.insert(key, value) on merged_map.entry(section).or_default()
SectionInsert(merged_map, section, key, value) ==
    LET map == EntryOrDefault(merged_map, section)
    IN [map EXCEPT ![IndexOf(map, section)].value = IndexInsert(@, key, value)]

\* The body of `for line in content.lines()` in merge_ini_contents, on the
\* map merged so far and the current section.
IniLine(st, raw) ==
    LET line == Trim(raw) IN
    IF line = << >> \/ line[1] = ";" \/ line[1] = "#"
    THEN st
    ELSE IF line[1] = "[" /\ line[Len(line)] = "]"
    THEN LET current_section == SubSeq(line, 2, Len(line) - 1)
         IN [merged_map |-> EntryOrDefault(st.merged_map, current_section),
             current_section |-> current_section]
    ELSE IF \E i \in DOMAIN line : line[i] = "="
    THEN LET eq_pos == CHOOSE i \in DOMAIN line :
                           line[i] = "=" /\ \A k \in 1..(i - 1) : line[k] # "="
             key == Trim(SubSeq(line, 1, eq_pos - 1))
             value == Trim(SubSeq(line, eq_pos + 1, Len(line)))
         IN [st EXCEPT !.merged_map =
                SectionInsert(@, st.current_section, key,
                              IF value = << >> THEN None ELSE Some(value))]
    ELSE [st EXCEPT !.merged_map = SectionInsert(@, st.current_section, line, None)]

RECURSIVE IniLines(_, _)
IniLines(st, lines) ==
    IF lines = << >> THEN st ELSE IniLines(IniLine(st, Head(lines)), Tail(lines))

\* The `for content in contents` loop of merge_ini_contents.
RECURSIVE IniContents(_, _)
IniContents(merged_map, contents) ==
    IF contents = << >> THEN merged_map
    ELSE IniContents(IniLines([merged_map |-> merged_map, current_section |-> << >>],
                              Lines(Head(contents))).merged_map,
                     Tail(contents))

\* The conversion back to INI format.
RECURSIVE IniKeys(_)
IniKeys(section) ==
    IF section = << >> THEN << >>
    ELSE (IF IsSome(Head(section).value)
          THEN Head(section).key \o <<"=">> \o Unwrap(Head(section).value)
          ELSE Head(section).key)
         \o <<Newline>> \o IniKeys(Tail(section))
RECURSIVE IniSections(_)
IniSections(merged_map) ==
    IF merged_map = << >> THEN << >>
    ELSE (IF Head(merged_map).key # << >>
          THEN <<"[">> \o Head(merged_map).key \o <<"]", Newline>> ELSE << >>)
         \o IniKeys(Head(merged_map).value) \o <<Newline>>
         \o IniSections(Tail(merged_map))

\* merge_ini_contents(contents)
merge_ini_contents(contents) == Ok(IniSections(IniContents(<< >>, contents)))

(***************************************************************************)
(* junction-merger/src/main.rs: main.                                      *)
(***************************************************************************)
\* The `sources` arguments: a URL and a file path.
Urls == { "https://h/a" }
Files == { "f" }
Sources == Urls \cup Files
MergeType == { "Json", "Plaintext", "Ini" }
OutputFiles == { None, Some("out") }

\* What fetch_content(client, source) can return.
fetch_content(source) ==
    IF source \in Urls
    THEN { Err("error sending request"), Err("HTTP error 404 Not Found") }
         \cup { Ok(content) : content \in Contents }
    ELSE { Err("File does not exist"), Err("stream did not contain valid UTF-8") }
         \cup { Ok(content) : content \in Contents }

InitMerger ==
    /\ pc = "junction-merger"
    /\ panic = ""
    /\ config = None
    /\ resolved = None
    /\ iterOrder = << >>
    /\ shared = None
    /\ dataDir = <<"d">>
    /\ envPath = Err("NotPresent")
    /\ exePath = Ok(<<"/", "x", "/", "j">>)
    /\ pathCall = None
    /\ loop = NoLoop
    /\ merger \in { [pc |-> "fetch", sources |-> sources, merge_type |-> merge_type,
                    output_file |-> output_file, next |-> 0, contents |-> << >>,
                    stderr |-> << >>, merged_content |-> None, written |-> None,
                    exit_code |-> None] :
                   sources \in SeqsUpTo(Sources, MaxSources) \ {<< >>},
                   merge_type \in MergeType,
                   output_file \in OutputFiles }
    /\ req = [r \in Req |-> IdleRequest]
    /\ last = NoRequest

\* Mutant of MergerFetch: a source that cannot be fetched is reported and
\* left out.
MergerFetchSkips ==
    /\ merger.pc = "fetch"
    /\ merger.next < Len(merger.sources)
    /\ LET source == merger.sources[merger.next + 1] IN
       \E fetched \in fetch_content(source) :
          IF fetched.ok
          THEN merger' = [merger EXCEPT !.next = @ + 1,
                                        !.contents = Append(@, fetched.value)]
          ELSE merger' = [merger EXCEPT !.next = @ + 1,
                                        !.stderr = Append(@, <<"Failed to fetch from ",
                                                               source, fetched.err>>)]
    /\ UNCHANGED <<pc, panic, config, resolved, iterOrder, shared, dataDir, envPath,
                   exePath, pathCall, loop, req, last>>

\* One pass through `for source in sources`: the content is kept, or the
\* failure is reported and the process exits with status 1.
MergerFetch ==
    /\ merger.pc = "fetch"
    /\ merger.next < Len(merger.sources)
    /\ LET source == merger.sources[merger.next + 1] IN
       \E fetched \in fetch_content(source) :
          IF fetched.ok
          THEN merger' = [merger EXCEPT !.next = @ + 1,
                                        !.contents = Append(@, fetched.value)]
          ELSE merger' = [merger EXCEPT !.pc = "exited",
                                        !.next = @ + 1,
                                        !.stderr = Append(@, <<"Failed to fetch from ",
                                                               source, fetched.err>>),
                                        !.exit_code = Some(1)]
    /\ UNCHANGED <<pc, panic, config, resolved, iterOrder, shared, dataDir, envPath,
                   exePath, pathCall, loop, req, last>>

\* `match merge_type { .. }`
merge(merge_type, contents) ==
    IF merge_type = "Json" THEN merge_json_contents(contents)
    ELSE IF merge_type = "Plaintext" THEN Ok(merge_plaintext_contents(contents))
    ELSE merge_ini_contents(contents)

\* main after the last fetch: the merge, whose error main returns, then the
\* write to the output file or to stdout, which can fail before or after
\* part of the content is out.
MergerMergeAndWrite ==
    /\ merger.pc = "fetch"
    /\ merger.next = Len(merger.sources)
    /\ LET merged == merge(merger.merge_type, merger.contents)
           to == IF IsSome(merger.output_file) THEN Unwrap(merger.output_file)
                 ELSE "stdout"
       IN IF ~merged.ok
          THEN merger' = [merger EXCEPT !.pc = "exited",
                                        !.stderr = Append(@, <<"Error: ", merged.err>>),
                                        !.exit_code = Some(1)]
          ELSE \E result \in { "ok", "failed", "failed part way" } :
                  merger' = [merger EXCEPT
                      !.pc = "exited",
                      !.merged_content = Some(merged.value),
                      !.written = IF result = "failed" THEN None
                                  ELSE Some([to |-> to, content |-> merged.value,
                                             complete |-> result = "ok"]),
                      !.stderr = IF result = "ok" THEN @
                                 ELSE Append(@, <<"Error: ", "write failed">>),
                      !.exit_code = Some(IF result = "ok" THEN 0 ELSE 1)]
    /\ UNCHANGED <<pc, panic, config, resolved, iterOrder, shared, dataDir, envPath,
                   exePath, pathCall, loop, req, last>>

NextMerger == MergerFetch \/ MergerMergeAndWrite

SpecMerger == InitMerger /\ [][NextMerger]_vars

(***************************************************************************)
(* Properties.                                                             *)
(***************************************************************************)

\* The `outputs` list main loaded, once it has one.
Loaded == IsSome(config) /\ Unwrap(config).ok
LoadedList == Unwrap(config).value.outputs

\* ResolvedConfig::new has returned.
Resolved == IsSome(resolved)

DistinctSlugs(l) == \A i, j \in DOMAIN l : l[i].slug = l[j].slug => i = j
SlugsOf(l) == { l[i].slug : i \in DOMAIN l }
Occurrences(l, slug) == Cardinality({ i \in DOMAIN l : l[i].slug = slug })

\* C1: for every list of definitions with distinct slugs, ResolvedConfig::new
\* succeeds; get_output_by_slug then returns exactly the input definition for
\* every slug of the list and None for every other string, and the registry
\* has as many entries as the list.
C1_DistinctSlugsResolve ==
    (Resolved /\ DistinctSlugs(LoadedList)) =>
        LET r == Unwrap(resolved) IN
        /\ r.ok
        /\ \A i \in DOMAIN LoadedList :
              get_output_by_slug(r.value, LoadedList[i].slug) = Some(LoadedList[i])
        /\ \A s \in RequestSlugs \ SlugsOf(LoadedList) :
              get_output_by_slug(r.value, s) = None
        /\ len(r.value.outputs) = Len(LoadedList)
        /\ r.value.data_dir = dataDir

\* A list of two definitions with distinct slugs and the same command has
\* been resolved.
C1_Witness ==
    /\ Resolved
    /\ DistinctSlugs(LoadedList)
    /\ Len(LoadedList) = 2
    /\ LoadedList[1].cmd = LoadedList[2].cmd

\* C2: for every list in which two definitions share a slug, whatever their
\* cmd and args and wherever they are, ResolvedConfig::new returns
\* DuplicatePublicKey with a slug that occurs twice in the list, and no
\* registry: the value returned holds none and none reaches the handlers.
C2_DuplicateSlugRejected ==
    (Resolved /\ ~DistinctSlugs(LoadedList)) =>
        LET r == Unwrap(resolved) IN
        /\ ~r.ok
        /\ DOMAIN r = {"ok", "err"}
        /\ r.err.kind = "DuplicatePublicKey"
        /\ Occurrences(LoadedList, r.err.slug) >= 2
        /\ iterOrder = << >>
        /\ shared = None

\* A list whose repeated slug sits in two definitions that are not adjacent
\* and differ in cmd has been rejected.
C2_Witness ==
    /\ Resolved
    /\ ~Unwrap(resolved).ok
    /\ \E i, j \in DOMAIN LoadedList :
          /\ j > i + 1
          /\ LoadedList[i].slug = LoadedList[j].slug
          /\ LoadedList[i].cmd # LoadedList[j].cmd

\* The request answered last was GET /output/{slug}.
LastOutput == last.route = "/output/:slug"

\* text is bytes decoded as UTF-8 with every invalid byte replaced.
DecodedLossily(bytes, text) ==
    /\ Len(text) = Len(bytes)
    /\ \A i \in DOMAIN bytes :
          text[i] = (IF bytes[i] = InvalidByte THEN ReplacementChar ELSE bytes[i])

\* part occurs in text as a run of consecutive elements.
Contains(text, part) ==
    \E i \in 0..(Len(text) - Len(part)) : SubSeq(text, i + 1, i + Len(part)) = part

\* C3: GET /output/{slug} for a slug that is no key of the registry is
\* answered 404 with an empty body; the request computes no PATH and spawns
\* no process.
C3_UnknownSlugNotFound ==
    (LastOutput /\ last.slug \notin DOMAIN Unwrap(shared).outputs) =>
        /\ last.resp.status = 404
        /\ last.resp.body = << >>
        /\ last.resp.json = None
        /\ last.path_calls = 0
        /\ last.spawns = 0
        /\ last.command = None
        /\ last.spawn_err = None
        /\ last.output = None

\* An unknown slug was requested of a registry that has entries.
C3_Witness ==
    /\ LastOutput
    /\ last.slug \notin DOMAIN Unwrap(shared).outputs
    /\ DOMAIN Unwrap(shared).outputs # {}
    /\ last.resp.status = 404

\* C4: GET /output/{slug} for a known slug whose command ran and did not
\* exit successfully is answered 500 with the command's stderr, lossily
\* decoded, as body, whatever the command wrote to stdout and also when
\* stderr is empty.
C4_FailureAnswersStderr ==
    (LastOutput /\ IsSome(last.output) /\ ~success(Unwrap(last.output).status)) =>
        /\ last.slug \in DOMAIN Unwrap(shared).outputs
        /\ last.resp.status = 500
        /\ DecodedLossily(Unwrap(last.output).stderr, last.resp.body)
        /\ Unwrap(last.output).stderr = << >> => last.resp.body = << >>

\* A command failed after writing to stdout and nothing to stderr.
C4_Witness ==
    /\ LastOutput
    /\ IsSome(last.output)
    /\ ~success(Unwrap(last.output).status)
    /\ Unwrap(last.output).stdout # << >>
    /\ Unwrap(last.output).stderr = << >>
    /\ last.resp.status = 500

\* C5: GET /output/{slug} for a known slug whose command exited successfully
\* is answered 200 with Content-Type text/plain; charset=utf-8 and the
\* command's stdout, lossily decoded, as body, whether or not the command
\* wrote to stderr.
C5_SuccessAnswersStdout ==
    (LastOutput /\ IsSome(last.output) /\ success(Unwrap(last.output).status)) =>
        /\ last.slug \in DOMAIN Unwrap(shared).outputs
        /\ last.resp.status = 200
        /\ last.resp.content_type = "text/plain; charset=utf-8"
        /\ DecodedLossily(Unwrap(last.output).stdout, last.resp.body)

\* A command succeeded after writing to stdout and to stderr.
C5_Witness ==
    /\ LastOutput
    /\ IsSome(last.output)
    /\ success(Unwrap(last.output).status)
    /\ Unwrap(last.output).stdout # << >>
    /\ Unwrap(last.output).stderr # << >>
    /\ last.resp.status = 200

\* C6: GET /output/{slug} for a known slug whose process the operating
\* system cannot start is answered 500 with a body that contains the
\* operating system's error description; no exit status exists for it, and
\* it is answered neither 200 nor 404.
C6_SpawnFailureAnswers500 ==
    (LastOutput /\ IsSome(last.spawn_err)) =>
        /\ last.slug \in DOMAIN Unwrap(shared).outputs
        /\ last.resp.status = 500
        /\ Contains(last.resp.body, Unwrap(last.spawn_err))
        /\ last.output = None

\* A process could not be started.
C6_Witness ==
    /\ LastOutput
    /\ IsSome(last.spawn_err)
    /\ last.spawns = 1
    /\ last.resp.status = 500

\* Startup has failed: the configuration could not be loaded, or did not
\* resolve.
StartupFailed ==
    \/ IsSome(config) /\ ~Unwrap(config).ok
    \/ Resolved /\ ~Unwrap(resolved).ok

\* No request has been dispatched or answered.
NothingServed == last = NoRequest /\ \A r \in Req : req[r] = IdleRequest

\* C7: the service listens only after the configuration was loaded and
\* ResolvedConfig::new succeeded; when the configuration cannot be read or
\* parsed, or holds a repeated slug, main ends, for good, without having
\* bound the listener or served a request.
C7_ListenOnlyAfterResolve ==
    /\ [](pc = "listening" => (Loaded /\ Resolved /\ Unwrap(resolved).ok))
    /\ [](StartupFailed => (pc = "panicked" /\ shared = None /\ NothingServed))
    /\ [][StartupFailed => (StartupFailed' /\ pc' = "panicked")]_vars

\* main ended on a configuration with a repeated slug.
C7_Witness ==
    /\ Resolved
    /\ ~Unwrap(resolved).ok
    /\ pc = "panicked"
    /\ panic = "Failed to resolve config"

\* C8: once the service listens the shared registry never changes: through
\* every interleaving of GET /config and GET /output requests, whatever
\* their outcome, its slugs, definitions and data_dir are the ones
\* ResolvedConfig::new returned, and every GET /config answers the same JSON.
C8_RegistryImmutable ==
    /\ [](pc = "listening" => shared = Some(Unwrap(resolved).value))
    /\ [][pc = "listening" =>
            (shared' = shared /\ iterOrder' = iterOrder /\ resolved' = resolved)]_vars
    /\ [](last.route = "/config" =>
            last.resp.json = Some(ToJson(Unwrap(resolved).value, iterOrder)))

\* GET /config was answered for a registry of two entries while a GET
\* /output was waiting for its process.
C8_Witness ==
    /\ last.route = "/config"
    /\ last.concurrent
    /\ len(Unwrap(shared).outputs) = 2
    /\ \E q \in Req : req[q].st = "waiting"

\* C9: GET /config is answered 200 with a JSON document whose `outputs` keys
\* are exactly the configured slugs, each with its own definition, and whose
\* data_dir is the configured data directory; the request spawns nothing.
C9_ConfigDump ==
    last.route = "/config" =>
        /\ last.resp.status = 200
        /\ IsSome(last.resp.json)
        /\ LET doc == Unwrap(last.resp.json) IN
              /\ { doc.outputs[i][1] : i \in DOMAIN doc.outputs } = SlugsOf(LoadedList)
              /\ Len(doc.outputs) = Cardinality(SlugsOf(LoadedList))
              /\ \A i \in DOMAIN doc.outputs :
                    /\ doc.outputs[i][2] \in SeqToSet(LoadedList)
                    /\ doc.outputs[i][2].slug = doc.outputs[i][1]
              /\ doc.data_dir = dataDir
        /\ last.spawns = 0
        /\ last.path_calls = 0
        /\ last.command = None

\* GET /config was answered for a configuration of two definitions.
C9_Witness ==
    /\ last.route = "/config"
    /\ last.resp.status = 200
    /\ Len(LoadedList) = 2

LastRan == LastOutput /\ IsSome(last.output)

\* The events of the request answered last that hold text.
LogRecordsWith(text) == { i \in DOMAIN last.log : Contains(last.log[i].msg, text) }

\* C11: every command failure, whatever the command wrote to stderr and also
\* when it wrote nothing, is logged at error level.
C11_FailureAlwaysLogged ==
    (LastRan /\ ~success(Unwrap(last.output).status)) =>
        \E i \in DOMAIN last.log : last.log[i].level = "ERROR"

\* C12: a command that ran and wrote to stderr has exactly one log record
\* holding that stderr, at INFO when it succeeded and at ERROR when it
\* failed; the status and the body of the response are those of the exit
\* status alone.
C12_StderrLoggedOnce ==
    (LastRan /\ Unwrap(last.output).stderr # << >>) =>
        LET output == Unwrap(last.output)
            text == FromUtf8Lossy(output.stderr)
        IN /\ Cardinality(LogRecordsWith(text)) = 1
           /\ \A i \in LogRecordsWith(text) :
                 /\ last.log[i].level = "INFO" <=> success(output.status)
                 /\ last.log[i].level = "ERROR" <=> ~success(output.status)
                 /\ last.log[i].level \in {"INFO", "ERROR"}
           /\ last.resp.status = (IF success(output.status) THEN 200 ELSE 500)
           /\ DecodedLossily(IF success(output.status) THEN output.stdout
                             ELSE output.stderr, last.resp.body)

\* A command succeeded after writing to stderr, and the record is at INFO.
C12_Witness ==
    /\ LastRan
    /\ success(Unwrap(last.output).status)
    /\ Unwrap(last.output).stderr # << >>
    /\ \E i \in DOMAIN last.log : last.log[i].level = "INFO"

\* C13: every spawn error is logged: the request that met it has a log
\* record holding the operating system's error.
C13_SpawnErrorLogged ==
    (LastOutput /\ IsSome(last.spawn_err)) =>
        LogRecordsWith(Unwrap(last.spawn_err)) # {}

\* C16: no failure of a request takes the service down: every GET
\* /output that is answered, after its process ended or could not be
\* started, has one response with status 404, 500 or 200, the service is
\* then still listening with every connection that has no request in
\* progress ready for the next one, and once listening the service stays so.
C16_FailuresStayPerRequest ==
    /\ [](LastOutput =>
            /\ last.resp.status \in {404, 500, 200}
            /\ pc = "listening"
            /\ \A r \in Req : req[r].st = "idle" => Dispatchable(r))
    /\ [][pc = "listening" => pc' = "listening"]_vars

\* A command could not be started, its request was answered 500, and the
\* service is listening with a connection ready.
C16_Witness ==
    /\ LastOutput
    /\ IsSome(last.spawn_err)
    /\ last.resp.status = 500
    /\ pc = "listening"
    /\ \E r \in Req : Dispatchable(r)

\* slug is a key of the registry the handlers share.
KnownSlug(slug) == contains_key(Unwrap(shared).outputs, slug)

\* C17: a GET /output makes one attempt: it starts its command once for a
\* known slug and never for an unknown one, and neither a failure to start
\* nor a non-zero exit makes it start a process again.
C17_SingleAttempt ==
    /\ \A r \in Req :
          /\ req[r].spawns <= 1
          /\ req[r].st = "waiting" => req[r].spawns = 1
    /\ LastOutput =>
          /\ last.spawns = (IF KnownSlug(last.slug) THEN 1 ELSE 0)
          /\ IsSome(last.spawn_err) => ~IsSome(last.output)

\* A command exited with a failure and its request started it once.
C17_Witness ==
    /\ LastRan
    /\ ~success(Unwrap(last.output).status)
    /\ last.spawns = 1

\* C18: a GET /output for a known slug whose process was started is answered
\* only with the collected output of the exited process, and a request that
\* waits for its process leaves the wait in no other way: without the exit
\* it stays unanswered.
C18_AnsweredAfterExit ==
    /\ [](LastOutput /\ KnownSlug(last.slug) /\ ~IsSome(last.spawn_err)
            => IsSome(last.output))
    /\ [][\A r \in Req :
            (req[r].st = "waiting" /\ req'[r] # req[r]) =>
                /\ req'[r] = IdleRequest
                /\ last'.route = "/output/:slug"
                /\ last'.slug = req[r].slug
                /\ IsSome(last'.output)]_vars

\* A request was answered with its process's output while another request
\* for the same slug is still waiting.
C18_Witness ==
    /\ LastRan
    /\ \E q \in Req : req[q].st = "waiting" /\ req[q].slug = last.slug

\* What get_output makes of a process that could not start, or of its output.
NormalMapping ==
    /\ IsSome(last.spawn_err) => last.resp = get_output_spawn_error(Unwrap(last.spawn_err))
    /\ IsSome(last.output) =>
          last.resp.status = (IF success(Unwrap(last.output).status) THEN 200 ELSE 500)
    /\ IsSome(last.spawn_err) # IsSome(last.output)

\* C19: when PATH cannot be read, get_modified_path returns None, and the
\* request still starts its command, once, with no PATH set on it, and is
\* answered as any other.
C19_UnreadablePathInherits ==
    ~envPath.ok =>
        /\ \A r \in Req :
              req[r].st = "waiting" => Unwrap(req[r].command).env_path = None
        /\ (LastOutput /\ KnownSlug(last.slug)) =>
              /\ IsSome(last.command)
              /\ Unwrap(last.command).env_path = None
              /\ last.path_calls = 1
              /\ last.spawns = 1
              /\ NormalMapping

\* PATH could not be read and a command ran without a PATH override and was
\* answered 200.
C19_Witness ==
    /\ ~envPath.ok
    /\ LastRan
    /\ Unwrap(last.command).env_path = None
    /\ last.resp.status = 200

\* command is the Command for slug as the configuration file defines it.
AsConfigured(slug, command) ==
    \E i \in DOMAIN LoadedList :
        /\ LoadedList[i].slug = slug
        /\ command.program = LoadedList[i].cmd
        /\ command.args = LoadedList[i].args
        /\ command.current_dir = dataDir

\* C20: the process of a known slug is started with the configured command
\* as the program, the configured arguments in their order as its arguments,
\* and the data directory as its working directory.
C20_ArgvAndCwd ==
    /\ \A r \in Req :
          req[r].st = "waiting" => AsConfigured(req[r].slug, Unwrap(req[r].command))
    /\ (LastOutput /\ KnownSlug(last.slug)) =>
          /\ IsSome(last.command)
          /\ AsConfigured(last.slug, Unwrap(last.command))

\* A command with two arguments ran in the data directory.
C20_Witness ==
    /\ LastRan
    /\ Unwrap(last.command).program = "/bin/echo"
    /\ Unwrap(last.command).args = <<"hello", "world">>
    /\ Unwrap(last.command).current_dir = dataDir

\* The PATH that get_modified_path makes of the service's environment.
AugmentedPath == get_modified_path(dataDir, envPath, exePath).ret

\* C21: no step of the service changes its own PATH, so after any sequence
\* of requests it is what it was before them; the augmented PATH is only
\* the PATH override of the Command built for a request.
C21_ParentPathUntouched ==
    /\ [][envPath' = envPath]_vars
    /\ [](\A r \in Req :
            req[r].st = "waiting" => Unwrap(req[r].command).env_path = AugmentedPath)
    /\ [](LastOutput /\ IsSome(last.command) =>
            Unwrap(last.command).env_path = AugmentedPath)

\* A command ran with an augmented PATH that differs from the service's
\* own PATH, while another request was in progress.
C21_Witness ==
    /\ LastRan
    /\ envPath.ok
    /\ IsSome(Unwrap(last.command).env_path)
    /\ Unwrap(Unwrap(last.command).env_path) # envPath.value
    /\ \E q \in Req : req[q].st = "waiting"

\* get_modified_path has been called and returned a value.
PathReturned == IsSome(pathCall) /\ IsSome(Unwrap(pathCall).ret)
PathValue == Unwrap(Unwrap(pathCall).ret)

\* The directory of the running executable, when it can be determined.
ExeDirKnown == exePath.ok /\ IsSome(Parent(exePath.value))
ExeDir == Unwrap(Parent(exePath.value))

NoColon(dir) == \A i \in DOMAIN dir : dir[i] # Colon

\* dir is the colon-delimited segment of path that starts at position k.
SegmentAt(path, dir, k) ==
    /\ NoColon(dir)
    /\ k + Len(dir) - 1 <= Len(path)
    /\ SubSeq(path, k, k + Len(dir) - 1) = dir
    /\ (k = 1 \/ path[k - 1] = Colon)
    /\ (k + Len(dir) - 1 = Len(path) \/ path[k + Len(dir)] = Colon)

\* How many segments of path are dir.
SegmentCount(path, dir) ==
    Cardinality({ k \in 1..(Len(path) + 1) : SegmentAt(path, dir, k) })

\* C14: a value returned by get_modified_path is the executable's directory
\* (only if it is no segment of PATH), then the data directory (only if it
\* is no segment of PATH), then the original PATH unchanged, joined by ':'.
C14_PathOrder ==
    PathReturned =>
        /\ envPath.ok
        /\ \E with_exe, with_data \in BOOLEAN :
              /\ with_exe => (ExeDirKnown /\ SegmentCount(envPath.value, ExeDir) = 0)
              /\ with_data => SegmentCount(envPath.value, dataDir) = 0
              /\ PathValue = (IF with_exe THEN ExeDir \o <<Colon>> ELSE << >>)
                             \o (IF with_data THEN dataDir \o <<Colon>> ELSE << >>)
                             \o envPath.value

\* Both directories were put in front of a PATH of two other segments.
C14_Witness ==
    /\ PathReturned
    /\ ExeDirKnown
    /\ ExeDir = <<"/">>
    /\ dataDir = <<"d">>
    /\ envPath.value = <<"x", Colon, "x">>
    /\ PathValue = <<"/", Colon, "d", Colon, "x", Colon, "x">>

\* C15: with a readable PATH, a data_dir that is no segment of
\* PATH is a segment of the value returned, and a data_dir that is a segment
\* of PATH is a segment of the value returned no more often than of PATH.
C15_DataDirSegment ==
    (PathReturned /\ envPath.ok) =>
        /\ SegmentCount(envPath.value, dataDir) = 0 =>
              SegmentCount(PathValue, dataDir) >= 1
        /\ SegmentCount(envPath.value, dataDir) >= 1 =>
              SegmentCount(PathValue, dataDir) <= SegmentCount(envPath.value, dataDir)

\* When data_dir holds no ':' the first part holds, and when the
\* executable's directory holds no ':' the second part holds.
C15_DataDirSegment_ColonFree ==
    (PathReturned /\ envPath.ok) =>
        /\ (NoColon(dataDir) /\ SegmentCount(envPath.value, dataDir) = 0) =>
              SegmentCount(PathValue, dataDir) >= 1
        /\ (SegmentCount(envPath.value, dataDir) >= 1
            /\ (ExeDirKnown => NoColon(ExeDir))) =>
              SegmentCount(PathValue, dataDir) = SegmentCount(envPath.value, dataDir)

\* The executable's directory is the data directory, PATH holds it once,
\* and so does the value returned.
C15_ColonFree_Witness ==
    /\ PathReturned
    /\ ExeDirKnown
    /\ ExeDir = dataDir
    /\ SegmentCount(envPath.value, dataDir) = 1
    /\ SegmentCount(PathValue, dataDir) = 1

\* C22: the executable's directory is put in front exactly when it can be
\* determined and no colon-delimited segment of PATH equals it; a data
\* directory that no segment of PATH equals follows it, except that a
\* directory that is both is put in once; PATH itself, repeated segments and
\* all, follows unchanged.
C22_ExeDirPrepended ==
    PathReturned =>
        LET with_exe == ExeDirKnown /\ SegmentCount(envPath.value, ExeDir) = 0
            with_data == /\ SegmentCount(envPath.value, dataDir) = 0
                         /\ ~(with_exe /\ ExeDir = dataDir)
        IN PathValue = (IF with_exe THEN ExeDir \o <<Colon>> ELSE << >>)
                       \o (IF with_data THEN dataDir \o <<Colon>> ELSE << >>)
                       \o envPath.value

\* The executable's directory is the data directory, PATH holds another
\* directory twice, and the value returned holds the directory once in front
\* of that PATH.
C22_Witness ==
    /\ PathReturned
    /\ ExeDirKnown
    /\ ExeDir = <<"d">>
    /\ dataDir = <<"d">>
    /\ envPath.value = <<"x", Colon, "x">>
    /\ PathValue = <<"d", Colon, "x", Colon, "x">>

\* The positions of the list that hold a slug for the second or a later time.
Repeats(l) == { j \in DOMAIN l : \E i \in 1..(j - 1) : l[i].slug = l[j].slug }

\* Where the loop over l stops: at the first such position, or at the end.
StopsAt(l) ==
    IF Repeats(l) = {} THEN Len(l)
    ELSE CHOOSE j \in Repeats(l) : \A k \in Repeats(l) : j <= k

\* C23: ResolvedConfig::new visits the definitions in the order of the list
\* and inserts each one it visits; at the first position that repeats an
\* earlier slug it returns the error naming that position's slug, so that
\* of several repeated slugs the one whose second occurrence comes first is
\* named, and no later definition is visited or inserted.
C23_EarliestRepeatNamed ==
    pc \in {"ResolvedConfig::new", "returned"} =>
        LET l == LoadedList
            inserted == IF Repeats(l) # {} /\ loop.visited = StopsAt(l)
                        THEN loop.visited - 1 ELSE loop.visited
        IN /\ loop.visited <= StopsAt(l)
           /\ DOMAIN loop.outputs = { l[i].slug : i \in 1..inserted }
           /\ \A i \in 1..inserted : loop.outputs[l[i].slug] = l[i]
           /\ pc = "returned" =>
                 /\ loop.visited = StopsAt(l)
                 /\ Unwrap(resolved) =
                       (IF Repeats(l) = {}
                        THEN Ok([outputs |-> loop.outputs, data_dir |-> dataDir])
                        ELSE Err(DuplicatePublicKey(l[StopsAt(l)].slug)))
                 /\ Unwrap(resolved) = ResolvedConfigNew(Unwrap(config).value, dataDir)

\* The slugs of the list are a, b, b, a: the error names b, three
\* definitions were visited and two inserted.
C23_Witness ==
    /\ pc = "returned"
    /\ [i \in DOMAIN LoadedList |-> LoadedList[i].slug] = <<"a", "b", "b", "a">>
    /\ resolved = Some(Err(DuplicatePublicKey("b")))
    /\ loop.visited = 3
    /\ DOMAIN loop.outputs = {"a", "b"}

\* content is the text of a JSON object.
IsJsonObject(content) == FromStr(content).ok /\ FromStr(content).value.kind = "object"

\* The members of the JSON object that is the i-th content fetched.
MembersOf(i) == FromStr(merger.contents[i]).value.members

\* The members a merge of the contents fetched has when, for each key, the
\* last source that holds the key decides.
LastWins ==
    LET keys == UNION { DOMAIN MembersOf(i) : i \in DOMAIN merger.contents }
        last_with(key) == CHOOSE i \in DOMAIN merger.contents :
                              /\ key \in DOMAIN MembersOf(i)
                              /\ \A j \in DOMAIN merger.contents :
                                    key \in DOMAIN MembersOf(j) => j <= i
    IN { <<key, MembersOf(last_with(key))[key]>> : key \in keys }

\* C24: junction-merger writes its output, to the output file or to stdout,
\* only when every source was fetched and the merge succeeded, and what it
\* writes is the merged content; a source that cannot be fetched, or for
\* the JSON type a content that is no JSON object, ends the run with exit
\* status 1 and nothing written; a JSON merge gives every key the value of
\* the last source, in argument order, that holds it.
C24_WriteAfterAllMerged ==
    merger.pc # "off" =>
        /\ IsSome(merger.written) =>
              /\ merger.next = Len(merger.sources)
              /\ Len(merger.contents) = Len(merger.sources)
              /\ merge(merger.merge_type, merger.contents).ok
              /\ merger.merged_content = Some(Unwrap(merger.written).content)
              /\ Unwrap(merger.written).to =
                    (IF IsSome(merger.output_file) THEN Unwrap(merger.output_file)
                     ELSE "stdout")
        /\ (merger.pc = "exited" /\ Len(merger.contents) < Len(merger.sources)) =>
              /\ merger.written = None
              /\ merger.exit_code = Some(1)
        /\ (/\ merger.pc = "exited"
            /\ merger.merge_type = "Json"
            /\ \E i \in DOMAIN merger.contents : ~IsJsonObject(merger.contents[i])) =>
              /\ merger.written = None
              /\ merger.exit_code = Some(1)
        /\ (merger.merge_type = "Json" /\ IsSome(merger.merged_content)) =>
              Unwrap(merger.merged_content).json = LastWins

\* Three JSON sources of which the first and the last hold k with 1 and the
\* second holds k with 2 were merged and written out in full: k has 1.
C24_Witness ==
    /\ merger.pc = "exited"
    /\ merger.merge_type = "Json"
    /\ merger.contents = <<TextK1, TextK2M1, TextK1>>
    /\ merger.written = Some([to |-> "out",
                              content |-> [json |-> { <<"k", 1>>, <<"m", 1>> }],
                              complete |-> TRUE])
    /\ merger.exit_code = Some(0)

====
